---- MODULE Spec2Model ----
(***************************************************************************)
(* A model of cle/backends/__init__.py: Region, Regions (the container of  *)
(* segments or sections with its sorted view) and Backend (the image).     *)
(*                                                                         *)
(* A Regions container is a pair of sequences: _list holds the Region      *)
(* objects in insertion order and _sorted_list holds references to the     *)
(* same objects.  A reference is the object's position in _list, so that   *)
(* mutating an object in place (Region._rebase) is seen through both.      *)
(* Python's None is the empty sequence and a value x is <<x>>.             *)
(*                                                                         *)
(* The Symbol objects are kept in one sequence, in the order of their      *)
(* construction: a reference to a Symbol is its position there, so that    *)
(* Symbol.resolve, which mutates the object in place, is seen through      *)
(* every table and list that holds it.  Two images own symbols: "self" is  *)
(* the image modelled in full, "other" is a second Backend of which only   *)
(* _symbols_by_addr and resolved_imports are kept.                         *)
(***************************************************************************)
EXTENDS Integers, Sequences, FiniteSets

\* ---------------------------------------------------------------- bounds
MaxRegions == 2   \* Region objects an image owns (segments plus sections)
MaxVaddr == 2     \* the linked vaddr of a new region is in 0..MaxVaddr
MaxSymbols == 2   \* Symbol objects constructed, over both images
MaxResolves == 2  \* calls of Symbol.resolve

Vaddrs == 0 .. MaxVaddr
Sizes == 0 .. 2       \* memsize and filesize of a new region
Offsets == 0 .. 1     \* file offset of a new region
Bases == 0 .. 1       \* linked_base and mapped_base
\* Backend.rebase never marks the image, so it can shift the regions again
\* and again: the model stops a shift that would leave this window
Window == (0 - 1) .. (MaxVaddr + 2)
\* the addresses and the file offsets a query is asked about
Addrs == (0 - 2) .. (MaxVaddr + 5)
FileOffsets == (0 - MaxVaddr - 4) .. 4

None == << >>
Some(x) == << x >>

\* ---------------------------------------------------------------- Region
Region(offset, vaddr, filesize, memsize) ==
    [offset |-> offset, vaddr |-> vaddr, filesize |-> filesize, memsize |-> memsize]

Section(offset, vaddr, size) == Region(offset, vaddr, size, size)

\* "self.vaddr = delta": the region is moved to delta
Region_rebase_to(r, delta) == [r EXCEPT !.vaddr = delta]

Region_rebase(r, delta) == [r EXCEPT !.vaddr = @ + delta]

contains_addr(r, addr) == r.vaddr <= addr /\ addr < r.vaddr + r.memsize

contains_offset(r, offset) == r.offset <= offset /\ offset < r.offset + r.filesize

\* the guard is contains_addr(addr): the zero-filled tail is not refused
addr_to_offset_unguarded(r, addr) ==
    LET offset == addr - r.vaddr + r.offset
    IN  IF ~contains_addr(r, addr) THEN None ELSE Some(offset)

addr_to_offset(r, addr) ==
    LET offset == addr - r.vaddr + r.offset
    IN  IF ~contains_offset(r, offset) THEN None ELSE Some(offset)

\* "offset + self.offset + self.vaddr"
offset_to_addr_plus(r, offset) ==
    LET addr == offset + r.offset + r.vaddr
    IN  IF ~contains_addr(r, addr) THEN None ELSE Some(addr)

offset_to_addr(r, offset) ==
    LET addr == offset - r.offset + r.vaddr
    IN  IF ~contains_addr(r, addr) THEN None ELSE Some(addr)

Region_max_addr(r) == r.vaddr + r.memsize - 1

\* --------------------------------------------------------------- Regions
InsertAt(s, pos, x) == SubSeq(s, 1, pos - 1) \o << x >> \o SubSeq(s, pos, Len(s))

\* sorted(lst, key=vaddr): Python's sort is stable, so an object goes after
\* every earlier object whose vaddr is not larger
RECURSIVE SortedPrefix(_, _)
SortedPrefix(lst, n) ==
    IF n = 0 THEN << >>
    ELSE LET prev == SortedPrefix(lst, n - 1)
             pos == 1 + Cardinality({j \in 1 .. Len(prev) : lst[prev[j]].vaddr <= lst[n].vaddr})
         IN  InsertAt(prev, pos, n)

make_sorted(lst) == SortedPrefix(lst, Len(lst))

\* Regions.__init__(lst)
Regions_init(lst) ==
    [list |-> lst, sorted |-> IF lst # << >> THEN make_sorted(lst) ELSE << >>]

\* utils.key_bisect_insort_left: the bisect-left loop over 0-based lo, hi
RECURSIVE bisect_left(_, _, _, _, _)
bisect_left(lst, sorted, key, lo, hi) ==
    IF lo < hi
    THEN LET mid == (lo + hi) \div 2
         IN  IF lst[sorted[mid + 1]].vaddr < key
             THEN bisect_left(lst, sorted, key, mid + 1, hi)
             ELSE bisect_left(lst, sorted, key, lo, mid)
    ELSE lo

key_bisect_insort_left(lst, sorted, ref) ==
    InsertAt(sorted, bisect_left(lst, sorted, lst[ref].vaddr, 0, Len(sorted)) + 1, ref)

\* utils.key_bisect_find with the key vaddr + memsize: the bisect-right loop
RECURSIVE key_bisect_find(_, _, _, _, _)
key_bisect_find(lst, sorted, addr, lo, hi) ==
    IF lo < hi
    THEN LET mid == (lo + hi) \div 2
             r == lst[sorted[mid + 1]]
         IN  IF r.vaddr + r.memsize <= addr
             THEN key_bisect_find(lst, sorted, addr, mid + 1, hi)
             ELSE key_bisect_find(lst, sorted, addr, lo, mid)
    ELSE lo

\* the new object goes to the end of _sorted_list too
Regions_append_last(rs, region) ==
    [list |-> Append(rs.list, region), sorted |-> Append(rs.sorted, Len(rs.list) + 1)]

\* Regions.append
Regions_append(rs, region) ==
    LET lst == Append(rs.list, region)
    IN  [list |-> lst, sorted |-> key_bisect_insort_left(lst, rs.sorted, Len(lst))]

\* Regions.__setitem__
Regions_setitem(rs, idx, item) ==
    LET lst == [rs.list EXCEPT ![idx] = item]
    IN  [list |-> lst, sorted |-> make_sorted(lst)]

\* Regions._rebase: every object of _list is shifted in place; _sorted_list
\* is left as it is
Regions_rebase(rs, delta) ==
    [rs EXCEPT !.list = [i \in 1 .. Len(rs.list) |-> Region_rebase(rs.list[i], delta)]]

\* Regions.find_region_containing: None, or the reference of the region
find_region_containing(rs, addr) ==
    LET pos == key_bisect_find(rs.list, rs.sorted, addr, 0, Len(rs.sorted))
    IN  IF pos >= Len(rs.sorted) THEN None
        ELSE IF contains_addr(rs.list[rs.sorted[pos + 1]], addr)
             THEN Some(rs.sorted[pos + 1])
             ELSE None

\* Regions.max_addr
Regions_max_addr(rs) ==
    IF rs.sorted # << >>
    THEN Some(Region_max_addr(rs.list[rs.sorted[Len(rs.sorted)]]))
    ELSE None

\* --------------------------------------------------------------- Backend
VARIABLES
    segments,         \* Backend._segments, a Regions container
    sections,         \* Backend._sections, a Regions container
    linked_base,      \* Backend.linked_base
    mapped_base,      \* Backend.mapped_base
    is_mapped,        \* Backend._is_mapped
    symbols,          \* the Symbol objects, in the order of their construction
    symbols_by_addr,  \* per image, Backend._symbols_by_addr: a dict from addr to Symbol
    resolved_imports, \* per image, Backend.resolved_imports: a list of Symbols
    last_resolve,     \* the receiver and the argument of the last Symbol.resolve call
    binary_stream,    \* Backend.binary_stream: the open stream, or None
    stream_closes,    \* the calls of binary_stream.close() so far
    op,               \* the last operation: "rebase", "set_segments",
                      \* "set_sections", "close", or "other"
    err               \* the exception the last operation raised, or "none"

symbol_vars == << symbols, symbols_by_addr, resolved_imports, last_resolve >>

stream_vars == << binary_stream, stream_closes >>

vars == << segments, sections, linked_base, mapped_base, is_mapped, symbol_vars, stream_vars, op, err >>

Images == {"self", "other"}

\* the regions a format parser creates: under Spec a region is one byte at
\* any vaddr, under SpecLookup its memory extent varies and is its file
\* extent, under SpecFile the two extents vary independently
UnitSegmentValues == {Region(0, v, 1, 1) : v \in Vaddrs}

UnitSectionValues == {Section(0, v, 1) : v \in Vaddrs}

SegmentValues == {Region(0, v, m, m) : v \in Vaddrs, m \in Sizes}

SectionValues == {Section(0, v, s) : v \in Vaddrs, s \in Sizes}

FileSegmentValues == {Region(o, v, f, m) : o \in Offsets, v \in 0 .. 1, f \in Sizes, m \in Sizes}

FileSectionValues == {Section(o, v, s) : o \in Offsets, v \in 0 .. 1, s \in Sizes}

owned == Len(segments.list) + Len(sections.list)

\* Symbol.__init__, the fields of the new object
Symbol(owner, name, addr) ==
    [owner_obj |-> owner, name |-> name, addr |-> addr, resolved |-> FALSE, resolvedby |-> None]

SymbolNames == {"f", "g"}
SymbolAddrs == 0 .. 2

\* the stream Backend.__init__ is given, or opens
Stream == Some("stream")

\* Backend.__init__, binary_stream being what the constructor got: the
\* stream, or None when open() raised IOError
Backend_init(stream) ==
    /\ segments = Regions_init(<< >>)
    /\ sections = Regions_init(<< >>)
    /\ linked_base = 0
    /\ mapped_base = 0
    /\ is_mapped = FALSE
    /\ symbols = << >>
    /\ symbols_by_addr = [o \in Images |-> << >>]
    /\ resolved_imports = [o \in Images |-> << >>]
    /\ last_resolve = None
    /\ binary_stream = stream
    /\ stream_closes = 0
    /\ op = "other"
    /\ err = "none"

\* an image whose binary was opened
Init == Backend_init(Stream)

\* an image whose binary was opened, or could not be
InitAnyStream == \E stream \in {Stream, None} : Backend_init(stream)

\* Backend.image_base_delta
image_base_delta(mapped, linked) == mapped - linked

\* AddressTranslator: a linked address of the image in the mapped space
to_mapped(linked_addr) == linked_addr + image_base_delta(mapped_base, linked_base)

\* AddressTranslator: a mapped address of the image in the linked space
to_linked(mapped_addr) == mapped_addr - image_base_delta(mapped_base, linked_base)

\* the address the symbol was constructed with, untranslated
rebased_addr_linked(sym) == sym.addr

\* Symbol.rebased_addr, of a symbol of the image
rebased_addr(sym) == to_mapped(sym.addr)

InWindow(rs, delta) == \A i \in 1 .. Len(rs.list) : rs.list[i].vaddr + delta \in Window

\* the body of Backend.rebase past its guard: a container is shifted when
\* it is truthy, that is when its __len__ is not 0
rebase_sections(delta) == IF Len(sections.list) # 0 THEN Regions_rebase(sections, delta) ELSE sections

\* "elif self.segments": the segments are skipped when there are sections
rebase_segments_elif(delta) ==
    IF Len(sections.list) # 0 THEN segments
    ELSE IF Len(segments.list) # 0 THEN Regions_rebase(segments, delta) ELSE segments

rebase_segments(delta) == IF Len(segments.list) # 0 THEN Regions_rebase(segments, delta) ELSE segments

\* a format parser sets linked_base
set_linked_base ==
    \E b \in Bases :
        /\ linked_base' = b
        /\ op' = "other"
        /\ err' = "none"
        /\ UNCHANGED << segments, sections, mapped_base, is_mapped, symbol_vars, stream_vars >>

\* the loader assigns mapped_base
set_mapped_base ==
    \E b \in Bases :
        /\ mapped_base' = b
        /\ op' = "other"
        /\ err' = "none"
        /\ UNCHANGED << segments, sections, linked_base, is_mapped, symbol_vars, stream_vars >>

\* backend.segments.append(Segment(...))
append_segment(S) ==
    \E r \in S :
        /\ owned < MaxRegions
        /\ segments' = Regions_append(segments, r)
        /\ op' = "other"
        /\ err' = "none"
        /\ UNCHANGED << sections, linked_base, mapped_base, is_mapped, symbol_vars, stream_vars >>

\* backend.sections.append(Section(...))
append_section(S) ==
    \E r \in S :
        /\ owned < MaxRegions
        /\ sections' = Regions_append(sections, r)
        /\ op' = "other"
        /\ err' = "none"
        /\ UNCHANGED << segments, linked_base, mapped_base, is_mapped, symbol_vars, stream_vars >>

\* backend.segments[idx] = Segment(...)
setitem_segment(S) ==
    \E idx \in 1 .. Len(segments.list), r \in S :
        /\ segments' = Regions_setitem(segments, idx, r)
        /\ op' = "other"
        /\ err' = "none"
        /\ UNCHANGED << sections, linked_base, mapped_base, is_mapped, symbol_vars, stream_vars >>

\* backend.sections[idx] = Section(...)
setitem_section(S) ==
    \E idx \in 1 .. Len(sections.list), r \in S :
        /\ sections' = Regions_setitem(sections, idx, r)
        /\ op' = "other"
        /\ err' = "none"
        /\ UNCHANGED << segments, linked_base, mapped_base, is_mapped, symbol_vars, stream_vars >>

\* the segments setter with a list of two new regions, as a format parser
\* installs it: before it appends a segment
set_segments(S) ==
    \E r1 \in S, r2 \in S :
        /\ Len(segments.list) = 0
        /\ Len(sections.list) + 2 <= MaxRegions
        /\ segments' = Regions_init(<< r1, r2 >>)
        /\ op' = "set_segments"
        /\ err' = "none"
        /\ UNCHANGED << sections, linked_base, mapped_base, is_mapped, symbol_vars, stream_vars >>

\* the sections setter with a list of two new regions, as a format parser
\* installs it: before it appends a section
set_sections(S) ==
    \E r1 \in S, r2 \in S :
        /\ Len(sections.list) = 0
        /\ Len(segments.list) + 2 <= MaxRegions
        /\ sections' = Regions_init(<< r1, r2 >>)
        /\ op' = "set_sections"
        /\ err' = "none"
        /\ UNCHANGED << segments, linked_base, mapped_base, is_mapped, symbol_vars, stream_vars >>

\* the segments setter that installs an empty container before it raises
set_segments_unsupported_clears ==
    /\ segments' = Regions_init(<< >>)
    /\ op' = "set_segments"
    /\ err' = "ValueError"
    /\ UNCHANGED << sections, linked_base, mapped_base, is_mapped, symbol_vars, stream_vars >>

\* the segments setter with a value that is neither a list nor a Regions
set_segments_unsupported ==
    /\ op' = "set_segments"
    /\ err' = "ValueError"
    /\ UNCHANGED << segments, sections, linked_base, mapped_base, is_mapped, symbol_vars, stream_vars >>

\* the sections setter with a value that is neither a list nor a Regions
set_sections_unsupported ==
    /\ op' = "set_sections"
    /\ err' = "ValueError"
    /\ UNCHANGED << segments, sections, linked_base, mapped_base, is_mapped, symbol_vars, stream_vars >>

\* dict[key] = value
set_item(dict, key, value) ==
    [k \in DOMAIN dict \cup {key} |-> IF k = key THEN value ELSE dict[k]]

\* the table of the owner after Symbol.__init__ without "self.addr != 0"
register_always(table, addr, ref) == set_item(table, addr, ref)

\* the table of the owner after Symbol.__init__; an addr is a concrete
\* integer here, never a claripy expression
register(table, addr, ref) == IF addr # 0 THEN set_item(table, addr, ref) ELSE table

\* Symbol(owner, name, addr, size, sym_type), for up to cap objects
new_symbol(owners, names, cap) ==
    \E owner \in owners, name \in names, addr \in SymbolAddrs :
        /\ Len(symbols) < cap
        /\ symbols' = Append(symbols, Symbol(owner, name, addr))
        /\ symbols_by_addr' =
               [symbols_by_addr EXCEPT ![owner] = register(@, addr, Len(symbols) + 1)]
        /\ op' = "other"
        /\ err' = "none"
        /\ UNCHANGED << segments, sections, linked_base, mapped_base, is_mapped >>
        /\ UNCHANGED << resolved_imports, last_resolve, stream_vars >>

\* "self.resolvedby = obj" alone: the flag is left as it was
Symbol_resolve_unflagged(syms, s, obj) == [syms EXCEPT ![s].resolvedby = Some(obj)]

\* Symbol.resolve, the Symbol objects after "self.resolved = True;
\* self.resolvedby = obj" on the object s
Symbol_resolve(syms, s, obj) == [syms EXCEPT ![s].resolved = TRUE, ![s].resolvedby = Some(obj)]

\* resolved_imports as one list that the images share
append_resolved_shared(lists, syms, s) == [o \in DOMAIN lists |-> Append(lists[o], s)]

\* Symbol.resolve, the lists after "self.owner_obj.resolved_imports.append(self)"
append_resolved(lists, syms, s) == [lists EXCEPT ![syms[s].owner_obj] = Append(@, s)]

\* s.resolve(obj), for any two Symbol objects
resolve ==
    \E s \in 1 .. Len(symbols), obj \in 1 .. Len(symbols) :
        /\ Len(resolved_imports["self"]) + Len(resolved_imports["other"]) < MaxResolves
        /\ symbols' = Symbol_resolve(symbols, s, obj)
        /\ resolved_imports' = append_resolved(resolved_imports, symbols, s)
        /\ last_resolve' = Some(<< s, obj >>)
        /\ op' = "other"
        /\ err' = "none"
        /\ UNCHANGED << segments, sections, linked_base, mapped_base, is_mapped >>
        /\ UNCHANGED << symbols_by_addr, stream_vars >>

\* Backend.close without "self.binary_stream = None"
close_keeps_stream ==
    /\ IF binary_stream # None
       THEN /\ stream_closes' = stream_closes + 1
            /\ binary_stream' = binary_stream
       ELSE UNCHANGED stream_vars
    /\ op' = "close"
    /\ err' = "none"
    /\ UNCHANGED << segments, sections, linked_base, mapped_base, is_mapped, symbol_vars >>

\* Backend.close
close ==
    /\ IF binary_stream # None
       THEN /\ stream_closes' = stream_closes + 1
            /\ binary_stream' = None
       ELSE UNCHANGED stream_vars
    /\ op' = "close"
    /\ err' = "none"
    /\ UNCHANGED << segments, sections, linked_base, mapped_base, is_mapped, symbol_vars >>

\* Backend.rebase without its "if self._is_mapped: raise"
rebase_unguarded ==
    LET delta == image_base_delta(mapped_base, linked_base)
    IN  /\ InWindow(segments, delta) /\ InWindow(sections, delta)
        /\ op' = "rebase"
        /\ err' = "none"
        /\ sections' = rebase_sections(delta)
        /\ segments' = rebase_segments(delta)
        /\ UNCHANGED << linked_base, mapped_base, is_mapped, symbol_vars, stream_vars >>

\* Backend.rebase
rebase ==
    LET delta == image_base_delta(mapped_base, linked_base)
    IN  /\ is_mapped \/ (InWindow(segments, delta) /\ InWindow(sections, delta))
        /\ op' = "rebase"
        /\ IF is_mapped
           THEN /\ err' = "CLEOperationError"
                /\ UNCHANGED << segments, sections >>
           ELSE /\ err' = "none"
                /\ sections' = rebase_sections(delta)
                /\ segments' = rebase_segments(delta)
        /\ UNCHANGED << linked_base, mapped_base, is_mapped, symbol_vars, stream_vars >>

\* Loader.add_object: the loader assigns mapped_base, calls rebase() and
\* marks the image as mapped
add_object ==
    \E b \in Bases :
        LET delta == image_base_delta(b, linked_base)
        IN  /\ is_mapped \/ (InWindow(segments, delta) /\ InWindow(sections, delta))
            /\ mapped_base' = b
            /\ op' = "other"
            /\ IF is_mapped
               THEN /\ err' = "CLEOperationError"
                    /\ UNCHANGED << segments, sections, is_mapped >>
               ELSE /\ err' = "none"
                    /\ sections' = rebase_sections(delta)
                    /\ segments' = rebase_segments(delta)
                    /\ is_mapped' = TRUE
            /\ UNCHANGED << linked_base, symbol_vars, stream_vars >>

\* ------------------------------------------------------- Backend queries
\* "self.find_segment_containing if self.segments else
\* self.find_section_containing": the container the lookups consult
\* "if self.sections": the sections are consulted first
loadable_sections_first == IF Len(sections.list) # 0 THEN sections ELSE segments

loadable == IF Len(segments.list) # 0 THEN segments ELSE sections

\* Backend.find_loadable_containing: None, or the reference of the region
\* in the consulted container
find_loadable_containing(addr) == find_region_containing(loadable, addr)

\* Backend.contains_addr
Backend_contains_addr(addr) == find_loadable_containing(addr) # None

\* Backend.addr_to_offset
Backend_addr_to_offset(addr) ==
    LET l == find_loadable_containing(addr)
    IN  IF l # None THEN addr_to_offset(loadable.list[l[1]], addr) ELSE None

\* the loop "for s in ...: if s.contains_offset(offset): return
\* s.offset_to_addr(offset)" from the i-th object of the list on; the
\* function returns None when the loop ends
RECURSIVE scan_offset(_, _, _)
scan_offset(lst, offset, i) ==
    IF i > Len(lst) THEN None
    ELSE IF contains_offset(lst[i], offset) THEN offset_to_addr(lst[i], offset)
         ELSE scan_offset(lst, offset, i + 1)

\* the segments are scanned and then, whatever was found, the sections
Backend_offset_to_addr_both(offset) ==
    IF scan_offset(segments.list, offset, 1) # None
    THEN scan_offset(segments.list, offset, 1)
    ELSE scan_offset(sections.list, offset, 1)

\* Backend.offset_to_addr
Backend_offset_to_addr(offset) ==
    IF Len(segments.list) # 0
    THEN scan_offset(segments.list, offset, 1)
    ELSE scan_offset(sections.list, offset, 1)

\* "return self.linked_base"
Backend_min_addr_linked == linked_base

\* Backend.min_addr
Backend_min_addr == mapped_base

\* max(map(lambda x: x.max_addr, lst))
max_of(lst) ==
    CHOOSE m \in {Region_max_addr(lst[i]) : i \in 1 .. Len(lst)} :
        \A i \in 1 .. Len(lst) : Region_max_addr(lst[i]) <= m

\* "self.sections or self.segments"
Backend_max_addr_sections_first ==
    IF Len(segments.list) # 0 \/ Len(sections.list) # 0
    THEN max_of(IF Len(sections.list) # 0 THEN sections.list ELSE segments.list)
    ELSE mapped_base

\* Backend.max_addr
Backend_max_addr ==
    IF Len(segments.list) # 0 \/ Len(sections.list) # 0
    THEN max_of(IF Len(segments.list) # 0 THEN segments.list ELSE sections.list)
    ELSE mapped_base

Next ==
    \/ set_linked_base
    \/ set_mapped_base
    \/ append_segment(UnitSegmentValues)
    \/ append_section(UnitSectionValues)
    \/ setitem_segment(UnitSegmentValues)
    \/ setitem_section(UnitSectionValues)
    \/ set_segments(UnitSegmentValues)
    \/ set_sections(UnitSectionValues)
    \/ new_symbol({"self"}, {"f"}, 1)
    \/ rebase
    \/ add_object

Spec == Init /\ [][Next]_vars

\* the region sets and the lookups of an image that is populated and rebased
NextLookup ==
    \/ set_linked_base
    \/ set_mapped_base
    \/ append_segment(SegmentValues)
    \/ append_section(SectionValues)
    \/ setitem_segment(SegmentValues)
    \/ setitem_section(SectionValues)
    \/ set_segments(SegmentValues)
    \/ set_sections(SectionValues)
    \/ rebase

SpecLookup == Init /\ [][NextLookup]_vars

\* the population of an image by a format parser, with the file extents free
NextFile ==
    \/ append_segment(FileSegmentValues)
    \/ append_section(FileSectionValues)
    \/ setitem_segment(FileSegmentValues)
    \/ setitem_section(FileSectionValues)

SpecFile == Init /\ [][NextFile]_vars

\* ---------------------------------------------------------------- claims
\* A step that leaves op = "rebase" and changes the state is a call of
\* Backend.rebase: no other operation sets op to "rebase".

shifted(rs1, rs0, delta) ==
    /\ Len(rs1.list) = Len(rs0.list)
    /\ \A i \in 1 .. Len(rs0.list) :
           rs1.list[i] = [rs0.list[i] EXCEPT !.vaddr = rs0.list[i].vaddr + delta]

\* C1: a rebase() that directly follows a rebase() raises the already-mapped
\* error and leaves every segment and section as the first call left it.
C1_SecondRebaseRaises ==
    [][(op = "rebase" /\ op' = "rebase")
         => (err' = "CLEOperationError" /\ segments' = segments /\ sections' = sections)]_vars

\* C2: a rebase() that completes without error leaves is_mapped true, and
\* is_mapped, once true, stays true.
C2_RebaseMarksMapped ==
    [][/\ (op' = "rebase" /\ err' = "none") => is_mapped'
       /\ is_mapped => is_mapped']_vars

\* C3: rebase() on an image whose is_mapped is true raises the already-mapped
\* error and changes no region, nor mapped_base, linked_base or is_mapped.
C3_MappedRebaseFails ==
    [][(is_mapped /\ op' = "rebase")
         => /\ err' = "CLEOperationError"
            /\ UNCHANGED << segments, sections, mapped_base, linked_base, is_mapped >>]_vars

C3_Witness ==
    /\ is_mapped /\ op = "rebase" /\ err = "CLEOperationError"
    /\ Len(segments.list) > 0 /\ Len(sections.list) > 0
    /\ mapped_base # linked_base

\* C4: rebase() on an image whose is_mapped is false raises nothing, adds
\* mapped_base - linked_base once to the vaddr of every segment and of every
\* section, keeps their offset, filesize and memsize, and leaves the symbols
\* and the table of symbols by address as they are.
C4_RebaseShiftsRegions ==
    [][(~is_mapped /\ op' = "rebase")
         => /\ err' = "none"
            /\ shifted(segments', segments, mapped_base - linked_base)
            /\ shifted(sections', sections, mapped_base - linked_base)
            /\ symbols' = symbols
            /\ symbols_by_addr' = symbols_by_addr]_vars

C4_Witness ==
    /\ ~is_mapped /\ op = "rebase" /\ err = "none"
    /\ mapped_base # linked_base
    /\ \E i \in 1 .. Len(segments.list) : segments.list[i].vaddr \notin Vaddrs
    /\ \E i \in 1 .. Len(sections.list) : sections.list[i].vaddr \notin Vaddrs
    /\ DOMAIN symbols_by_addr["self"] # {}

\* the regions of a container cover no address twice
NonOverlapping(rs) ==
    \A i, j \in 1 .. Len(rs.list) :
        i # j => ~\E a \in Addrs : contains_addr(rs.list[i], a) /\ contains_addr(rs.list[j], a)

FileWithinMem(rs) == \A i \in 1 .. Len(rs.list) : rs.list[i].filesize <= rs.list[i].memsize

\* the regions of a container that a scan of _list finds to contain addr
holders(rs, addr) == {i \in 1 .. Len(rs.list) : contains_addr(rs.list[i], addr)}

AgreesWithScan(rs) ==
    \A a \in Addrs :
        LET found == find_region_containing(rs, a)
        IN  IF holders(rs, a) = {} THEN found = None
            ELSE found # None /\ found[1] \in holders(rs, a)

\* C5: on a container of pairwise non-overlapping regions with filesize <=
\* memsize, built by appends, list construction, item replacement and
\* rebases, find_region_containing(addr) is the region a linear scan finds to
\* contain addr, and None when the scan finds none.
C5_FindAgreesWithScan ==
    \A rs \in {segments, sections} :
        (NonOverlapping(rs) /\ FileWithinMem(rs)) => AgreesWithScan(rs)

\* the lookup does agree with the scan when, in addition, no region is empty
NoEmptyRegion(rs) == \A i \in 1 .. Len(rs.list) : rs.list[i].memsize > 0

C5_FindAgreesWithScanNonEmpty ==
    \A rs \in {segments, sections} :
        (NonOverlapping(rs) /\ FileWithinMem(rs) /\ NoEmptyRegion(rs)) => AgreesWithScan(rs)

\* C6: contains_addr(addr) is whether find_region_containing(addr) of the
\* segments, when the image has a segment, and of the sections otherwise, is
\* not None; an image with no segment and no section contains no address.
C6_ContainsAddrDelegates ==
    /\ \A a \in Addrs :
           Backend_contains_addr(a) <=>
               IF Len(segments.list) >= 1
               THEN find_region_containing(segments, a) # None
               ELSE find_region_containing(sections, a) # None
    /\ owned = 0 => \A a \in Addrs : ~Backend_contains_addr(a)

\* an image with segments, and an address that a section alone contains
C6_Witness ==
    /\ Len(segments.list) >= 1
    /\ \E a \in Addrs :
           /\ find_region_containing(sections, a) # None
           /\ find_region_containing(segments, a) = None
           /\ ~Backend_contains_addr(a)

AllMaxAddrs == {Region_max_addr(segments.list[i]) : i \in 1 .. Len(segments.list)}
                   \cup {Region_max_addr(sections.list[i]) : i \in 1 .. Len(sections.list)}

IsMaxOf(m, S) == m \in S /\ \A x \in S : x <= m

\* C7: min_addr is mapped_base, and max_addr is the largest max_addr of all
\* the regions the image owns, segments and sections alike, or mapped_base
\* when it owns none.
C7_MaxOverAllRegions ==
    /\ Backend_min_addr = mapped_base
    /\ IF owned = 0 THEN Backend_max_addr = mapped_base
       ELSE IsMaxOf(Backend_max_addr, AllMaxAddrs)

\* C7 as amended: min_addr is mapped_base, and max_addr is the largest
\* max_addr of the segments when the image has a segment, of the sections
\* when it has sections only, and mapped_base when it owns no region.
C7_MaxOverLoadable ==
    /\ Backend_min_addr = mapped_base
    /\ IF Len(segments.list) >= 1
       THEN IsMaxOf(Backend_max_addr,
                    {Region_max_addr(segments.list[i]) : i \in 1 .. Len(segments.list)})
       ELSE IF Len(sections.list) >= 1
            THEN IsMaxOf(Backend_max_addr,
                         {Region_max_addr(sections.list[i]) : i \in 1 .. Len(sections.list)})
            ELSE Backend_max_addr = mapped_base

\* an image whose highest region is a section
C7_Witness ==
    /\ Len(segments.list) >= 1
    /\ \E i \in 1 .. Len(sections.list) : Region_max_addr(sections.list[i]) > Backend_max_addr

\* the regions of a list whose file extent contains offset
offset_holders(lst, offset) == {i \in 1 .. Len(lst) : contains_offset(lst[i], offset)}

First(S) == CHOOSE i \in S : \A j \in S : i <= j

\* C8: offset_to_addr(off) is the offset_to_addr(off) of a segment whose file
\* extent contains off; when no segment contains off, whether or not there
\* are segments, it is that of a section containing off; it is None only
\* when neither a segment nor a section contains off.  (Stated for regions
\* with filesize <= memsize, whose own translation is never None.)
C8_OffsetFallsBackToSections ==
    (FileWithinMem(segments) /\ FileWithinMem(sections)) =>
    \A off \in FileOffsets :
        LET segs == offset_holders(segments.list, off)
            secs == offset_holders(sections.list, off)
            res == Backend_offset_to_addr(off)
        IN  /\ segs # {} => \E i \in segs : res = offset_to_addr(segments.list[i], off)
            /\ (segs = {} /\ secs # {}) => \E i \in secs : res = offset_to_addr(sections.list[i], off)
            /\ res = None => (segs = {} /\ secs = {})

\* C8 as amended: when the image has a segment, offset_to_addr(off) is the
\* offset_to_addr(off) of the first segment, in insertion order, whose file
\* extent contains off, and None when no segment contains off: the sections
\* are not consulted.  Only when the image has no segment is it that of the
\* first section containing off, and None when no section contains off.
C8_OffsetScansLoadable ==
    \A off \in FileOffsets :
        LET lst == IF Len(segments.list) >= 1 THEN segments.list ELSE sections.list
            in == offset_holders(lst, off)
            res == Backend_offset_to_addr(off)
        IN  /\ in = {} => res = None
            /\ in # {} => res = offset_to_addr(lst[First(in)], off)
            /\ (in # {} /\ lst[First(in)].filesize <= lst[First(in)].memsize) => res # None

\* an image with segments, and an offset that a section alone contains
C8_Witness ==
    /\ Len(segments.list) >= 1
    /\ FileWithinMem(segments) /\ FileWithinMem(sections)
    /\ \E off \in FileOffsets :
           /\ offset_holders(segments.list, off) = {}
           /\ offset_holders(sections.list, off) # {}
           /\ Backend_offset_to_addr(off) = None

\* addr - vaddr + offset when it lies in the file extent of r, else None
translation(r, addr) ==
    LET off == addr - r.vaddr + r.offset
    IN  IF r.offset <= off /\ off < r.offset + r.filesize THEN Some(off) ELSE None

WellFormed(rs) == NonOverlapping(rs) /\ FileWithinMem(rs) /\ NoEmptyRegion(rs)

\* C9: addr_to_offset(addr) is addr - vaddr + offset of a region, segment or
\* section, that contains addr, when that lies in the region's file extent;
\* it is None when no owned region contains addr and when addr lies in the
\* zero-filled tail.  (Stated for images whose containers hold non-empty,
\* non-overlapping regions with filesize <= memsize.)
C9_AddrResolvesInEitherSet ==
    (WellFormed(segments) /\ WellFormed(sections)) =>
    \A a \in Addrs :
        LET segs == holders(segments, a)
            secs == holders(sections, a)
            res == Backend_addr_to_offset(a)
        IN  IF segs = {} /\ secs = {} THEN res = None
            ELSE \/ \E i \in segs : res = translation(segments.list[i], a)
                 \/ \E i \in secs : res = translation(sections.list[i], a)

\* C9 as amended: addr_to_offset(addr) consults the segments when the image
\* has a segment and the sections otherwise.  It is None when
\* find_region_containing(addr) of that container is None; otherwise, for the
\* region found, it is addr - vaddr + offset when that lies in the region's
\* file extent and None when addr lies in the zero-filled tail.
C9_AddrResolvesInLoadable ==
    \A a \in Addrs :
        LET rs == IF Len(segments.list) >= 1 THEN segments ELSE sections
            hit == find_region_containing(rs, a)
            res == Backend_addr_to_offset(a)
        IN  IF hit = None THEN res = None
            ELSE res = translation(rs.list[hit[1]], a)

\* an image with segments, with an address that a section alone contains and
\* with an address in the zero-filled tail of a segment
C9_Witness ==
    /\ Len(segments.list) >= 1
    /\ \E a \in Addrs :
           /\ holders(segments, a) = {}
           /\ \E i \in holders(sections, a) : translation(sections.list[i], a) # None
           /\ Backend_addr_to_offset(a) = None
    /\ \E a \in Addrs :
           /\ find_region_containing(segments, a) # None
           /\ Backend_addr_to_offset(a) = None

OwnedRegions ==
    {segments.list[i] : i \in 1 .. Len(segments.list)}
        \cup {sections.list[i] : i \in 1 .. Len(sections.list)}

\* C10: for a Region with filesize <= memsize, an address that addr_to_offset
\* maps to an offset is what offset_to_addr maps that offset back to; and an
\* offset of the file extent that offset_to_addr maps to an address is what
\* addr_to_offset maps that address back to.
C10_RegionRoundTrip ==
    \A r \in OwnedRegions :
        r.filesize <= r.memsize =>
            /\ \A a \in Addrs :
                   addr_to_offset(r, a) # None
                       => offset_to_addr(r, addr_to_offset(r, a)[1]) = Some(a)
            /\ \A off \in FileOffsets :
                   (offset_to_addr(r, off) # None /\ contains_offset(r, off))
                       => addr_to_offset(r, offset_to_addr(r, off)[1]) = Some(off)

\* a region with a file extent, at a file offset and a vaddr that differ,
\* and with a zero-filled tail
C10_Witness ==
    \E r \in OwnedRegions :
        /\ 0 < r.filesize /\ r.filesize < r.memsize
        /\ r.offset # r.vaddr
        /\ \E a \in Addrs : addr_to_offset(r, a) # None
        /\ \E off \in FileOffsets : offset_to_addr(r, off) # None /\ contains_offset(r, off)

\* without filesize <= memsize the round trip C10 states is lost
C10_RoundTripAnyRegion ==
    \A r \in OwnedRegions :
        \A a \in Addrs :
            addr_to_offset(r, a) # None
                => offset_to_addr(r, addr_to_offset(r, a)[1]) = Some(a)

\* ------------------------------------------------------ Region._rebase
\* a region with any file extent and any memory extent
RegionValues == {Region(o, v, f, m) : o \in Offsets, v \in Vaddrs, f \in Sizes, m \in Sizes}

\* an image that owns one segment, any of RegionValues
InitRegion ==
    \E r \in RegionValues :
        /\ segments = Regions_init(<< r >>)
        /\ sections = Regions_init(<< >>)
        /\ linked_base = 0
        /\ mapped_base = 0
        /\ is_mapped = FALSE
        /\ symbols = << >>
        /\ symbols_by_addr = [o \in Images |-> << >>]
        /\ resolved_imports = [o \in Images |-> << >>]
        /\ last_resolve = None
        /\ binary_stream = Stream
        /\ stream_closes = 0
        /\ op = "other"
        /\ err = "none"

\* the segment is shifted by the difference of the two bases, repeatedly
NextRegion ==
    \/ set_linked_base
    \/ set_mapped_base
    \/ rebase

SpecRegion == InitRegion /\ [][NextRegion]_vars

\* C11: Region._rebase(delta) is a translation: the region contains a
\* before iff it contains a + delta after, addr_to_offset(a + delta) after
\* is addr_to_offset(a) before, and offset, filesize and memsize are kept.
C11_RebaseTranslates ==
    [][(~is_mapped /\ op' = "rebase")
         => LET delta == mapped_base - linked_base
                before == segments.list[1]
                after == segments'.list[1]
            IN  /\ \A a \in Addrs :
                       /\ contains_addr(before, a) <=> contains_addr(after, a + delta)
                       /\ addr_to_offset(after, a + delta) = addr_to_offset(before, a)
                /\ after.offset = before.offset
                /\ after.filesize = before.filesize
                /\ after.memsize = before.memsize]_vars

\* a region with a file-backed part and a tail past it has been shifted
C11_Witness ==
    /\ op = "rebase" /\ err = "none"
    /\ mapped_base # linked_base
    /\ segments.list[1].vaddr \notin Vaddrs
    /\ 0 < segments.list[1].filesize
    /\ segments.list[1].filesize < segments.list[1].memsize
    /\ \E a \in Addrs : contains_addr(segments.list[1], a) /\ addr_to_offset(segments.list[1], a) = None

\* ------------------------------------------------- symbols and the stream
\* the symbols of two images are constructed and resolved, the image is closed
NextSymbols ==
    \/ new_symbol(Images, {"f"}, MaxSymbols)
    \/ resolve
    \/ close

SpecSymbols == InitAnyStream /\ [][NextSymbols]_vars

\* the occurrences of x in a list
Count(lst, x) == Cardinality({i \in 1 .. Len(lst) : lst[i] = x})

\* C12: S.resolve(T) on a symbol S whose resolved is false sets resolved,
\* makes resolvedby T and leaves S exactly once in the resolved_imports of
\* its owner; the list of the other image and every other symbol are as
\* they were.
C12_ResolveUnresolved ==
    [][(resolved_imports' # resolved_imports /\ ~symbols[last_resolve'[1][1]].resolved)
         => LET s == last_resolve'[1][1]
                obj == last_resolve'[1][2]
                owner == symbols[s].owner_obj
            IN  /\ symbols'[s].resolved
                /\ symbols'[s].resolvedby = Some(obj)
                /\ Count(resolved_imports'[owner], s) = 1
                /\ \A o \in Images \ {owner} : resolved_imports'[o] = resolved_imports[o]
                /\ Len(symbols') = Len(symbols)
                /\ \A x \in 1 .. Len(symbols) : x # s => symbols'[x] = symbols[x]
                /\ err' = "none"]_vars

\* a symbol was resolved once, by a symbol of the other image, whose list
\* is empty
C12_Witness ==
    /\ last_resolve # None
    /\ LET s == last_resolve[1][1]
           obj == last_resolve[1][2]
       IN  /\ symbols[s].resolved
           /\ symbols[s].resolvedby = Some(obj)
           /\ symbols[obj].owner_obj # symbols[s].owner_obj
           /\ ~symbols[obj].resolved
           /\ resolved_imports[symbols[s].owner_obj] = << s >>
           /\ resolved_imports[symbols[obj].owner_obj] = << >>

\* the symbols an image owns that were constructed with addr
constructed_at(o, addr) ==
    {i \in 1 .. Len(symbols) : symbols[i].owner_obj = o /\ symbols[i].addr = addr}

\* C13: after any sequence of Symbol constructions _symbols_by_addr has no
\* entry for address 0, has an entry for every nonzero address a symbol of
\* the image was constructed with, and the entry at k is the symbol most
\* recently constructed with addr k.
C13_SymbolsByAddr ==
    \A o \in Images :
        /\ 0 \notin DOMAIN symbols_by_addr[o]
        /\ \A k \in SymbolAddrs \ {0} :
               constructed_at(o, k) # {} => k \in DOMAIN symbols_by_addr[o]
        /\ \A k \in DOMAIN symbols_by_addr[o] :
               /\ symbols_by_addr[o][k] \in constructed_at(o, k)
               /\ symbols[symbols_by_addr[o][k]].addr = k
               /\ \A i \in constructed_at(o, k) : i <= symbols_by_addr[o][k]

\* an image has two symbols at one nonzero address, the entry being the
\* second
C13_Witness ==
    \E o \in Images, k \in SymbolAddrs \ {0} :
        /\ Cardinality(constructed_at(o, k)) = 2
        /\ DOMAIN symbols_by_addr[o] = {k}
        /\ \E i \in constructed_at(o, k) : i < symbols_by_addr[o][k]

C16_ClosedOnce ==
    /\ [](stream_closes <= 1 /\ (binary_stream # None => stream_closes = 0))
    /\ [][/\ stream_closes' >= stream_closes
          /\ op' = "close"
               => /\ err' = "none"
                  /\ binary_stream' = None
                  /\ stream_closes' = IF binary_stream # None THEN stream_closes + 1
                                                              ELSE stream_closes]_vars

\* the stream that the constructor opened has been closed
C16_Witness == op = "close" /\ err = "none" /\ binary_stream = None /\ stream_closes = 1

\* C20: after any sequence of resolve calls, re-resolving included, the
\* resolved_imports of an image holds exactly the image's symbols whose
\* resolved is true, each exactly once.
C20_ResolvedListedOnce ==
    \A o \in Images : \A s \in 1 .. Len(symbols) :
        Count(resolved_imports[o], s) = IF symbols[s].resolved /\ symbols[s].owner_obj = o THEN 1 ELSE 0

\* C20 as amended: the resolved_imports of an image holds exactly the
\* image's symbols whose resolved is true, and every resolve call, on a
\* resolved symbol too, raises nothing, makes resolvedby its argument and
\* appends the symbol to the list of its owner once more.
C20_ResolvedListed ==
    /\ [](\A o \in Images : \A s \in 1 .. Len(symbols) :
             Count(resolved_imports[o], s) > 0 <=> (symbols[s].resolved /\ symbols[s].owner_obj = o))
    /\ [][resolved_imports' # resolved_imports
            => LET s == last_resolve'[1][1]
                   obj == last_resolve'[1][2]
               IN  /\ resolved_imports' =
                          [resolved_imports EXCEPT ![symbols[s].owner_obj] = Append(@, s)]
                   /\ symbols'[s].resolvedby = Some(obj)
                   /\ err' = "none"]_vars

\* a symbol was resolved twice, the second time by another symbol
C20_Witness ==
    \E s \in 1 .. Len(symbols) :
        /\ Count(resolved_imports[symbols[s].owner_obj], s) = 2
        /\ symbols[s].resolved
        /\ last_resolve # None /\ last_resolve[1][1] = s
        /\ symbols[s].resolvedby = Some(last_resolve[1][2])
        /\ \E x \in 1 .. Len(symbols) : x # s /\ ~symbols[x].resolved

\* ------------------------------------------------------------- setters
\* the containers of an image are installed, refused and appended to
NextSetters ==
    \/ append_segment(SegmentValues)
    \/ append_section(SectionValues)
    \/ set_segments(SegmentValues)
    \/ set_sections(SectionValues)
    \/ set_segments_unsupported
    \/ set_sections_unsupported

SpecSetters == Init /\ [][NextSetters]_vars

\* _sorted_list holds every object of _list once, by non-decreasing vaddr
SortedView(rs) ==
    /\ Len(rs.sorted) = Len(rs.list)
    /\ {rs.sorted[p] : p \in 1 .. Len(rs.sorted)} = 1 .. Len(rs.list)
    /\ \A p, q \in 1 .. Len(rs.sorted) :
           p < q => rs.list[rs.sorted[p]].vaddr <= rs.list[rs.sorted[q]].vaddr

\* C15: assigning to segments or sections a value that is neither a list
\* nor a Regions raises ValueError and leaves both containers, _list and
\* _sorted_list, as they were; assigning a list installs a container whose
\* _sorted_list is built from that list.
C15_SetterTypes ==
    [][/\ err' = "ValueError" => (segments' = segments /\ sections' = sections)
       /\ (op' = "set_segments" /\ err' = "none")
            => (Len(segments'.list) = 2 /\ SortedView(segments') /\ sections' = sections)
       /\ (op' = "set_sections" /\ err' = "none")
            => (Len(sections'.list) = 2 /\ SortedView(sections') /\ segments' = segments)]_vars

\* an assignment was refused on an image that holds a list installed out
\* of vaddr order
C15_Witness ==
    /\ op = "set_sections" /\ err = "ValueError"
    /\ Len(segments.list) = 2
    /\ segments.sorted = << 2, 1 >>

\* C17: after construction from a list, append, item replacement and
\* rebase, in any sequence, _sorted_list holds the same objects as _list,
\* as many, by non-decreasing vaddr.
C17_SortedViewKept == SortedView(segments) /\ SortedView(sections)

\* a container appended to out of vaddr order has been shifted
C17_Witness ==
    /\ op = "rebase" /\ err = "none"
    /\ mapped_base # linked_base
    /\ Len(segments.list) = 2
    /\ segments.sorted = << 2, 1 >>
    /\ segments.list[1].vaddr \notin Vaddrs

\* C18: Regions.max_addr of a container of pairwise non-overlapping
\* regions is the maximum of vaddr + memsize - 1 over its regions, and is
\* None iff the container is empty.
C18_MaxAddrIsMaximum ==
    \A rs \in {segments, sections} :
        NonOverlapping(rs)
            => /\ Regions_max_addr(rs) = None <=> Len(rs.list) = 0
               /\ Len(rs.list) # 0 => Regions_max_addr(rs) = Some(max_of(rs.list))

\* the same for the containers that hold no empty region
C18_MaxAddrIsMaximumNonEmpty ==
    \A rs \in {segments, sections} :
        (NonOverlapping(rs) /\ NoEmptyRegion(rs))
            => /\ Regions_max_addr(rs) = None <=> Len(rs.list) = 0
               /\ Len(rs.list) # 0 => Regions_max_addr(rs) = Some(max_of(rs.list))

\* an image is populated by appends and rebased
NextMapped ==
    \/ set_linked_base
    \/ set_mapped_base
    \/ append_segment(SegmentValues)
    \/ append_section(SectionValues)
    \/ rebase

SpecMapped == Init /\ [][NextMapped]_vars

\* C19: when rebase() has run on an image whose regions were all at a
\* linked vaddr of at least linked_base, every address the image contains
\* lies between min_addr and max_addr.
C19_ContainedWithinBounds ==
    [][(/\ ~is_mapped /\ op' = "rebase"
        /\ \A i \in 1 .. Len(segments.list) : segments.list[i].vaddr >= linked_base
        /\ \A i \in 1 .. Len(sections.list) : sections.list[i].vaddr >= linked_base)
         => \A a \in Addrs :
                Backend_contains_addr(a)' => (Backend_min_addr' <= a /\ a <= Backend_max_addr')]_vars

\* rebase() has shifted the regions of an image that has segments and
\* sections and contains an address
C19_Witness ==
    /\ ~is_mapped /\ op = "rebase" /\ err = "none"
    /\ mapped_base # linked_base
    /\ Len(segments.list) # 0 /\ Len(sections.list) # 0
    /\ \A i \in 1 .. Len(segments.list) : segments.list[i].vaddr >= mapped_base
    /\ \A i \in 1 .. Len(sections.list) : sections.list[i].vaddr >= mapped_base
    /\ \E a \in Addrs : Backend_contains_addr(a) /\ a > Backend_min_addr
====
